---------------------------- MODULE Spec2Model ----------------------------
(***************************************************************************)
(* The startup/shutdown supervisor of the SPN Hub (cmds/hub/main.go).     *)
(*                                                                         *)
(* main() is modelled as a set of tasks that interleave statement by       *)
(* statement: the main task, the startup goroutine (lines 83-89), the      *)
(* escalation goroutine (lines 120-132) and the watchdog goroutine (lines  *)
(* 135-139).  The environment delivers OS signals into signalCh the way    *)
(* signal.Notify does (a send that never blocks: a signal that finds the   *)
(* buffer full is dropped) and lets the instance stop on its own.          *)
(* os.Exit ends every task: all actions are guarded by ~exited.            *)
(***************************************************************************)
EXTENDS Naturals, Integers, Sequences, FiniteSets

VARIABLES
    mainPc,        \* position of the main task in main()
    createErr,     \* what spn.New() returned: "unset", "nil", "cmdline", "other"
    execCmdLine,   \* main.go:49
    cmdOp,         \* instance.CommandLineOperation: "absent", "ok", "fails"
    cmdOpCalls,    \* number of calls of instance.CommandLineOperation()
    logStarts,     \* number of calls of log.Start()
    logShutdowns,  \* number of calls of log.Shutdown()
    startPc,       \* position of the startup goroutine
    startCalls,    \* number of calls of instance.Start()
    registered,    \* signal.Notify has been called
    signalCh,      \* the buffered channel of line 92
    mainSig,       \* kind of the signal the main task took in its select:
                   \* "none" (not yet), "term" or "diag"
    stoppedFired,  \* instance.Stopped() is closed
    instExitCode,  \* what instance.ExitCode() returned, "unread" before the call
    escPc,         \* position of the escalation goroutine
    forceCnt,      \* main.go:121
    escTerm,       \* termination-kind signals the escalation goroutine received
    escDiag,       \* diagnostic signals the escalation goroutine received
    wdPc,          \* position of the watchdog goroutine
    stopCalls,     \* number of calls of instance.Stop()
    stopErr,       \* what instance.Stop() returned: "none" (not yet), "nil", "err"
    dumps,         \* the calls of printStackTo, in order
    exited,        \* os.Exit has been called
    exitCode,      \* the code of the first os.Exit
    exitedBy,      \* the call site of the first os.Exit
    lostTerm       \* a termination-kind signal delivered while the escalation
                   \* goroutine was in its loop found signalCh full and was
                   \* dropped

vars == <<mainPc, createErr, execCmdLine, cmdOp, cmdOpCalls, logStarts,
          logShutdowns, startPc, startCalls, registered, signalCh, mainSig,
          stoppedFired, instExitCode, escPc, forceCnt, escTerm, escDiag,
          wdPc, stopCalls, stopErr, dumps, exited, exitCode, exitedBy,
          lostTerm>>

---------------------------------------------------------------------------
(* Bounds of the model. *)

\* The instance reports an exit code in 0..MaxExitCode.
MaxExitCode == 1

---------------------------------------------------------------------------
(* Constants of the program. *)

\* main.go:30
sigUSR1 == "SIGUSR1"

\* main.go:95-99 (os.Interrupt is SIGINT)
TermSignals == {"SIGHUP", "SIGINT", "SIGTERM", "SIGQUIT"}

\* main.go:93-101: the signals signal.Notify relays
NotifySignals == TermSignals \cup {sigUSR1}

\* main.go:106: the only thing the program asks of a signal
SigKind(sig) == IF sig = sigUSR1 THEN "diag" ELSE "term"

\* main.go:92: make(chan os.Signal, 1)
SignalChCap == 1

\* main.go:121
ForceCntInit == 5

\* main.go:58
ExitCreateFailed == 2

\* main.go:67 and main.go:73
ExitCmdLineFailed == 3

\* main.go:87, main.go:129, main.go:138
ExitForced == 1

MsgOnRequest == "PRINTING STACK ON REQUEST"
MsgForcedExit == "PRINTING STACK ON FORCED EXIT"
MsgTooLong == "PRINTING STACK - TAKING TOO LONG FOR SHUTDOWN"

ExitCodes == 0..MaxExitCode

---------------------------------------------------------------------------
(* printStackTo (main.go:149-157): the header is written, the goroutine    *)
(* snapshot is written only if the header was, and an error of either is   *)
(* logged.  hdrOk and snapOk are what the two writes to the sink return.   *)

\* printStackTo without the check of line 151: the snapshot is written
\* whatever the header write returned.
printStackToAlwaysSnapshot(msg, hdrOk, snapOk) ==
    [msg    |-> msg,
     header |-> hdrOk,
     snap   |-> IF snapOk THEN "written" ELSE "failed",
     logged |-> ~snapOk]

printStackTo(msg, hdrOk, snapOk) ==
    [msg    |-> msg,
     header |-> hdrOk,
     snap   |-> IF hdrOk THEN (IF snapOk THEN "written" ELSE "failed")
                ELSE "skipped",
     logged |-> ~hdrOk \/ (hdrOk /\ ~snapOk)]

\* os.Exit: the first call ends the process with its code.
Exit(code, by) ==
    /\ exited' = TRUE
    /\ exitCode' = code
    /\ exitedBy' = by

NoExit == UNCHANGED <<exited, exitCode, exitedBy>>

---------------------------------------------------------------------------
Init ==
    /\ mainPc = "create"
    /\ createErr = "unset"
    /\ execCmdLine = FALSE
    /\ cmdOp = "absent"
    /\ cmdOpCalls = 0
    /\ logStarts = 0
    /\ logShutdowns = 0
    /\ startPc = "none"
    /\ startCalls = 0
    /\ registered = FALSE
    /\ signalCh = <<>>
    /\ mainSig = "none"
    /\ stoppedFired = FALSE
    /\ instExitCode = "unread"
    /\ escPc = "none"
    /\ forceCnt = ForceCntInit
    /\ escTerm = 0
    /\ escDiag = 0
    /\ wdPc = "none"
    /\ stopCalls = 0
    /\ stopErr = "none"
    /\ dumps = <<>>
    /\ exited = FALSE
    /\ exitCode = 0
    /\ exitedBy = "none"
    /\ lostTerm = FALSE

---------------------------------------------------------------------------
(* The main task. *)

\* Create without the default case of the switch: a creation error is not
\* fatal and startup goes on.
CreateWithoutDefaultCase(e, op) ==
    /\ ~exited
    /\ mainPc = "create"
    /\ createErr' = e
    /\ cmdOp' = op
    /\ execCmdLine' = (e = "cmdline")
    /\ mainPc' = IF e = "cmdline" THEN "cmdline" ELSE "logstart"
    /\ NoExit
    /\ UNCHANGED <<lostTerm,
                   cmdOpCalls, logStarts, logShutdowns, startPc, startCalls,
                   registered, signalCh, mainSig, stoppedFired, instExitCode,
                   escPc, forceCnt, escTerm, escDiag, wdPc, stopCalls,
                   stopErr, dumps>>

\* main.go:48-59: instance, err := spn.New() and the switch on err.
\* e is the error New returns, op what instance.CommandLineOperation holds.
Create(e, op) ==
    /\ ~exited
    /\ mainPc = "create"
    /\ createErr' = e
    /\ cmdOp' = op
    /\ execCmdLine' = (e = "cmdline")
    /\ IF e = "other"
       THEN /\ mainPc' = "done"
            /\ Exit(ExitCreateFailed, "create")
       ELSE /\ mainPc' = IF e = "cmdline" THEN "cmdline" ELSE "logstart"
            /\ NoExit
    /\ UNCHANGED <<lostTerm,
                   cmdOpCalls, logStarts, logShutdowns, startPc, startCalls,
                   registered, signalCh, mainSig,
                   stoppedFired, instExitCode, escPc, forceCnt, escTerm,
                   escDiag, wdPc, stopCalls, stopErr, dumps>>

\* CmdLine without the nil check of line 65: a missing operation counts as
\* one that ran and succeeded.
CmdLineWithoutNilCheck ==
    /\ ~exited
    /\ mainPc = "cmdline"
    /\ execCmdLine
    /\ mainPc' = "done"
    /\ cmdOpCalls' = IF cmdOp = "absent" THEN cmdOpCalls ELSE cmdOpCalls + 1
    /\ IF cmdOp = "fails"
       THEN Exit(ExitCmdLineFailed, "cmdline")
       ELSE Exit(0, "cmdline")
    /\ UNCHANGED <<lostTerm,
                   createErr, execCmdLine, cmdOp, logStarts, logShutdowns,
                   startPc, startCalls, registered, signalCh, mainSig,
                   stoppedFired, instExitCode, escPc, forceCnt, escTerm,
                   escDiag, wdPc, stopCalls, stopErr, dumps>>

\* CmdLine that ignores the error of the operation and always exits 0.
CmdLineIgnoringError ==
    /\ ~exited
    /\ mainPc = "cmdline"
    /\ execCmdLine
    /\ mainPc' = "done"
    /\ IF cmdOp = "absent"
       THEN /\ Exit(ExitCmdLineFailed, "cmdline")
            /\ UNCHANGED cmdOpCalls
       ELSE /\ cmdOpCalls' = cmdOpCalls + 1
            /\ Exit(0, "cmdline")
    /\ UNCHANGED <<lostTerm,
                   createErr, execCmdLine, cmdOp, logStarts, logShutdowns,
                   startPc, startCalls, registered, signalCh, mainSig,
                   stoppedFired, instExitCode, escPc, forceCnt, escTerm,
                   escDiag, wdPc, stopCalls, stopErr, dumps>>

\* main.go:61-76: the command line operation, when one was requested.
CmdLine ==
    /\ ~exited
    /\ mainPc = "cmdline"
    /\ execCmdLine
    /\ mainPc' = "done"
    /\ IF cmdOp = "absent"
       THEN /\ Exit(ExitCmdLineFailed, "cmdline")
            /\ UNCHANGED cmdOpCalls
       ELSE /\ cmdOpCalls' = cmdOpCalls + 1
            /\ IF cmdOp = "fails"
               THEN Exit(ExitCmdLineFailed, "cmdline")
               ELSE Exit(0, "cmdline")
    /\ UNCHANGED <<lostTerm,
                   createErr, execCmdLine, cmdOp, logStarts, logShutdowns,
                   startPc, startCalls, registered, signalCh, mainSig, stoppedFired, instExitCode, escPc, forceCnt,
                   escTerm, escDiag, wdPc, stopCalls, stopErr, dumps>>

\* main.go:78-80: log.SetLogLevel, log.Start.
LogStart ==
    /\ ~exited
    /\ mainPc = "logstart"
    /\ logStarts' = logStarts + 1
    /\ mainPc' = "go_start"
    /\ NoExit
    /\ UNCHANGED <<lostTerm,
                   createErr, execCmdLine, cmdOp, cmdOpCalls, logShutdowns,
                   startPc, startCalls, registered, signalCh, mainSig, stoppedFired, instExitCode, escPc, forceCnt,
                   escTerm, escDiag, wdPc, stopCalls, stopErr, dumps>>

\* GoStart without the go statement: the main task goes on and the startup
\* goroutine never exists.
GoStartNotSpawned ==
    /\ ~exited
    /\ mainPc = "go_start"
    /\ mainPc' = "notify"
    /\ NoExit
    /\ UNCHANGED <<lostTerm, startPc,
                   createErr, execCmdLine, cmdOp, cmdOpCalls, logStarts,
                   logShutdowns, startCalls, registered, signalCh, mainSig,
                   stoppedFired, instExitCode, escPc, forceCnt, escTerm,
                   escDiag, wdPc, stopCalls, stopErr, dumps>>

\* main.go:83, 89: the go statement that spawns the startup goroutine.
GoStart ==
    /\ ~exited
    /\ mainPc = "go_start"
    /\ startPc' = "spawned"
    /\ mainPc' = "notify"
    /\ NoExit
    /\ UNCHANGED <<lostTerm,
                   createErr, execCmdLine, cmdOp, cmdOpCalls, logStarts,
                   logShutdowns, startCalls, registered, signalCh, mainSig, stoppedFired, instExitCode, escPc,
                   forceCnt, escTerm, escDiag, wdPc, stopCalls, stopErr,
                   dumps>>

\* Notify that goes on to the select without registering the channel.
NotifyWithoutRegistering ==
    /\ ~exited
    /\ mainPc = "notify"
    /\ mainPc' = "select"
    /\ NoExit
    /\ UNCHANGED <<lostTerm, registered,
                   createErr, execCmdLine, cmdOp, cmdOpCalls, logStarts,
                   logShutdowns, startPc, startCalls, signalCh, mainSig,
                   stoppedFired, instExitCode, escPc, forceCnt, escTerm,
                   escDiag, wdPc, stopCalls, stopErr, dumps>>

\* main.go:92-101: make the channel and register it with signal.Notify.
Notify ==
    /\ ~exited
    /\ mainPc = "notify"
    /\ registered' = TRUE
    /\ mainPc' = "select"
    /\ NoExit
    /\ UNCHANGED <<lostTerm,
                   createErr, execCmdLine, cmdOp, cmdOpCalls, logStarts,
                   logShutdowns, startPc, startCalls, signalCh, mainSig, stoppedFired, instExitCode, escPc,
                   forceCnt, escTerm, escDiag, wdPc, stopCalls, stopErr,
                   dumps>>

\* main.go:104-111: the select takes a signal.  On SIGUSR1 the stack is
\* printed; in either case control leaves the select and goes on to line 118.
SelectSignal(hdrOk, snapOk) ==
    /\ ~exited
    /\ mainPc = "select"
    /\ signalCh # <<>>
    /\ LET sig == Head(signalCh) IN
       /\ mainSig' = SigKind(sig)
       /\ dumps' = IF sig = sigUSR1
                   THEN Append(dumps, printStackTo(MsgOnRequest, hdrOk, snapOk))
                   ELSE dumps
    /\ signalCh' = Tail(signalCh)
    /\ mainPc' = "go_esc"
    /\ NoExit
    /\ UNCHANGED <<lostTerm,
                   createErr, execCmdLine, cmdOp, cmdOpCalls, logStarts,
                   logShutdowns, startPc, startCalls, registered, stoppedFired, instExitCode, escPc, forceCnt,
                   escTerm, escDiag, wdPc, stopCalls, stopErr>>

\* SelectStopped without the exit of lines 114-115: control falls out of
\* the select into the shutdown phase.
SelectStoppedFallsThrough ==
    /\ ~exited
    /\ mainPc = "select"
    /\ stoppedFired
    /\ mainPc' = "go_esc"
    /\ NoExit
    /\ UNCHANGED <<lostTerm,
                   createErr, execCmdLine, cmdOp, cmdOpCalls, logStarts,
                   logShutdowns, startPc, startCalls, registered, signalCh,
                   mainSig, stoppedFired, instExitCode, escPc, forceCnt,
                   escTerm, escDiag, wdPc, stopCalls, stopErr, dumps>>

\* main.go:113: the select takes the close of instance.Stopped().
SelectStopped ==
    /\ ~exited
    /\ mainPc = "select"
    /\ stoppedFired
    /\ mainPc' = "stopped_logshutdown"
    /\ NoExit
    /\ UNCHANGED <<lostTerm,
                   createErr, execCmdLine, cmdOp, cmdOpCalls, logStarts,
                   logShutdowns, startPc, startCalls, registered, signalCh,
                   mainSig, stoppedFired, instExitCode, escPc,
                   forceCnt, escTerm, escDiag, wdPc, stopCalls, stopErr,
                   dumps>>

\* main.go:114: log.Shutdown() after the instance stopped on its own.
StoppedLogShutdown ==
    /\ ~exited
    /\ mainPc = "stopped_logshutdown"
    /\ logShutdowns' = logShutdowns + 1
    /\ mainPc' = "stopped_exit"
    /\ NoExit
    /\ UNCHANGED <<lostTerm,
                   createErr, execCmdLine, cmdOp, cmdOpCalls, logStarts,
                   startPc, startCalls, registered, signalCh, mainSig, stoppedFired, instExitCode, escPc, forceCnt,
                   escTerm, escDiag, wdPc, stopCalls, stopErr, dumps>>

\* main.go:115: os.Exit(instance.ExitCode()); code is what ExitCode() returns.
StoppedExit(code) ==
    /\ ~exited
    /\ mainPc = "stopped_exit"
    /\ mainPc' = "done"
    /\ instExitCode' = code
    /\ Exit(code, "stopped")
    /\ UNCHANGED <<lostTerm,
                   createErr, execCmdLine, cmdOp, cmdOpCalls, logStarts,
                   logShutdowns, startPc, startCalls, registered, signalCh,
                   mainSig, stoppedFired, escPc,
                   forceCnt, escTerm, escDiag, wdPc, stopCalls, stopErr,
                   dumps>>

\* main.go:120-121, 132: the go statement that spawns the escalation
\* goroutine, whose first statement sets forceCnt.
GoEscalation ==
    /\ ~exited
    /\ mainPc = "go_esc"
    /\ escPc' = "recv"
    /\ forceCnt' = ForceCntInit
    /\ mainPc' = "go_wd"
    /\ NoExit
    /\ UNCHANGED <<lostTerm,
                   createErr, execCmdLine, cmdOp, cmdOpCalls, logStarts,
                   logShutdowns, startPc, startCalls, registered, signalCh,
                   mainSig, stoppedFired, instExitCode,
                   escTerm, escDiag, wdPc, stopCalls, stopErr, dumps>>

\* GoWatchdog without the go statement: the main task goes on to Stop with
\* no watchdog.
GoWatchdogNotSpawned ==
    /\ ~exited
    /\ mainPc = "go_wd"
    /\ mainPc' = "stop"
    /\ NoExit
    /\ UNCHANGED <<lostTerm, wdPc,
                   createErr, execCmdLine, cmdOp, cmdOpCalls, logStarts,
                   logShutdowns, startPc, startCalls, registered, signalCh,
                   mainSig, stoppedFired, instExitCode, escPc, forceCnt,
                   escTerm, escDiag, stopCalls, stopErr, dumps>>

\* main.go:135, 139: the go statement that spawns the watchdog goroutine.
GoWatchdog ==
    /\ ~exited
    /\ mainPc = "go_wd"
    /\ wdPc' = "sleep"
    /\ mainPc' = "stop"
    /\ NoExit
    /\ UNCHANGED <<lostTerm,
                   createErr, execCmdLine, cmdOp, cmdOpCalls, logStarts,
                   logShutdowns, startPc, startCalls, registered, signalCh,
                   mainSig, stoppedFired, instExitCode, escPc,
                   forceCnt, escTerm, escDiag, stopCalls, stopErr, dumps>>

\* main.go:142: the main task enters instance.Stop().
StopCall ==
    /\ ~exited
    /\ mainPc = "stop"
    /\ stopCalls' = stopCalls + 1
    /\ mainPc' = "in_stop"
    /\ NoExit
    /\ UNCHANGED <<lostTerm,
                   createErr, execCmdLine, cmdOp, cmdOpCalls, logStarts,
                   logShutdowns, startPc, startCalls, registered, signalCh,
                   mainSig, stoppedFired, instExitCode, escPc,
                   forceCnt, escTerm, escDiag, wdPc, stopErr, dumps>>

\* StopReturn that calls Stop again when it returned an error.
StopReturnRetrying(failed) ==
    /\ ~exited
    /\ mainPc = "in_stop"
    /\ stopErr' = IF failed THEN "err" ELSE "nil"
    /\ mainPc' = IF failed THEN "stop" ELSE "logshutdown"
    /\ NoExit
    /\ UNCHANGED <<lostTerm,
                   createErr, execCmdLine, cmdOp, cmdOpCalls, logStarts,
                   logShutdowns, startPc, startCalls, registered, signalCh,
                   mainSig, stoppedFired, instExitCode, escPc, forceCnt,
                   escTerm, escDiag, wdPc, stopCalls, dumps>>

\* main.go:142-144: instance.Stop() returns; an error is logged only.
StopReturn(failed) ==
    /\ ~exited
    /\ mainPc = "in_stop"
    /\ stopErr' = IF failed THEN "err" ELSE "nil"
    /\ mainPc' = "logshutdown"
    /\ NoExit
    /\ UNCHANGED <<lostTerm,
                   createErr, execCmdLine, cmdOp, cmdOpCalls, logStarts,
                   logShutdowns, startPc, startCalls, registered, signalCh,
                   mainSig, stoppedFired, instExitCode, escPc,
                   forceCnt, escTerm, escDiag, wdPc, stopCalls, dumps>>

\* main.go:145: log.Shutdown() after the graceful stop.
MainLogShutdown ==
    /\ ~exited
    /\ mainPc = "logshutdown"
    /\ logShutdowns' = logShutdowns + 1
    /\ mainPc' = "exit"
    /\ NoExit
    /\ UNCHANGED <<lostTerm,
                   createErr, execCmdLine, cmdOp, cmdOpCalls, logStarts,
                   startPc, startCalls, registered, signalCh, mainSig, stoppedFired, instExitCode, escPc, forceCnt,
                   escTerm, escDiag, wdPc, stopCalls, stopErr, dumps>>

\* MainExit that turns a failed Stop into exit code 1.
MainExitFailingOnStopErr(code) ==
    /\ ~exited
    /\ mainPc = "exit"
    /\ mainPc' = "done"
    /\ instExitCode' = code
    /\ Exit(IF stopErr = "err" THEN ExitForced ELSE code, "graceful")
    /\ UNCHANGED <<lostTerm,
                   createErr, execCmdLine, cmdOp, cmdOpCalls, logStarts,
                   logShutdowns, startPc, startCalls, registered, signalCh,
                   mainSig, stoppedFired, escPc, forceCnt, escTerm, escDiag,
                   wdPc, stopCalls, stopErr, dumps>>

\* main.go:146: os.Exit(instance.ExitCode()); code is what ExitCode() returns.
MainExit(code) ==
    /\ ~exited
    /\ mainPc = "exit"
    /\ mainPc' = "done"
    /\ instExitCode' = code
    /\ Exit(code, "graceful")
    /\ UNCHANGED <<lostTerm,
                   createErr, execCmdLine, cmdOp, cmdOpCalls, logStarts,
                   logShutdowns, startPc, startCalls, registered, signalCh,
                   mainSig, stoppedFired, escPc,
                   forceCnt, escTerm, escDiag, wdPc, stopCalls, stopErr,
                   dumps>>

---------------------------------------------------------------------------
(* The startup goroutine, main.go:83-89. *)

\* main.go:84: the goroutine enters instance.Start().
StartCall ==
    /\ ~exited
    /\ startPc = "spawned"
    /\ startCalls' = startCalls + 1
    /\ startPc' = "in_start"
    /\ NoExit
    /\ UNCHANGED <<lostTerm,
                   mainPc, createErr, execCmdLine, cmdOp, cmdOpCalls,
                   logStarts, logShutdowns, registered, signalCh, mainSig, stoppedFired, instExitCode, escPc,
                   forceCnt, escTerm, escDiag, wdPc, stopCalls, stopErr,
                   dumps>>

\* main.go:84-85: instance.Start() returns.
StartReturn(failed) ==
    /\ ~exited
    /\ startPc = "in_start"
    /\ startPc' = IF failed THEN "failed" ELSE "done"
    /\ NoExit
    /\ UNCHANGED <<lostTerm,
                   mainPc, createErr, execCmdLine, cmdOp, cmdOpCalls,
                   logStarts, logShutdowns, startCalls, registered, signalCh,
                   mainSig, stoppedFired, instExitCode, escPc,
                   forceCnt, escTerm, escDiag, wdPc, stopCalls, stopErr,
                   dumps>>

\* StartFailExit that only exits while the main task still waits in its
\* select.
StartFailExitOnlyWhileWaiting ==
    /\ ~exited
    /\ startPc = "failed"
    /\ mainPc = "select"
    /\ startPc' = "done"
    /\ Exit(ExitForced, "start")
    /\ UNCHANGED <<lostTerm,
                   mainPc, createErr, execCmdLine, cmdOp, cmdOpCalls,
                   logStarts, logShutdowns, startCalls, registered, signalCh,
                   mainSig, stoppedFired, instExitCode, escPc, forceCnt,
                   escTerm, escDiag, wdPc, stopCalls, stopErr, dumps>>

\* main.go:86-87: the start failure is printed and the process exits.
StartFailExit ==
    /\ ~exited
    /\ startPc = "failed"
    /\ startPc' = "done"
    /\ Exit(ExitForced, "start")
    /\ UNCHANGED <<lostTerm,
                   mainPc, createErr, execCmdLine, cmdOp, cmdOpCalls,
                   logStarts, logShutdowns, startCalls, registered, signalCh,
                   mainSig, stoppedFired, instExitCode, escPc,
                   forceCnt, escTerm, escDiag, wdPc, stopCalls, stopErr,
                   dumps>>

---------------------------------------------------------------------------
(* The escalation goroutine, main.go:120-132. *)

\* EscReceive with the test of line 125 off by one (forceCnt >= 0): the
\* loop goes on when the counter has reached 0.
EscReceiveOffByOne ==
    /\ ~exited
    /\ escPc = "recv"
    /\ signalCh # <<>>
    /\ LET sig == Head(signalCh) IN
       /\ escTerm' = IF sig \in TermSignals THEN escTerm + 1 ELSE escTerm
       /\ escDiag' = IF sig = sigUSR1 THEN escDiag + 1 ELSE escDiag
    /\ signalCh' = Tail(signalCh)
    /\ forceCnt' = forceCnt - 1
    /\ escPc' = IF forceCnt - 1 >= 0 THEN "recv" ELSE "force"
    /\ NoExit
    /\ UNCHANGED <<lostTerm,
                   mainPc, createErr, execCmdLine, cmdOp, cmdOpCalls,
                   logStarts, logShutdowns, startPc, startCalls, registered,
                   mainSig, stoppedFired, instExitCode, wdPc, stopCalls,
                   stopErr, dumps>>

\* main.go:123-126: receive any signal, decrement forceCnt; print the
\* remaining count while it is positive, else go on to the forced exit.
EscReceive ==
    /\ ~exited
    /\ escPc = "recv"
    /\ signalCh # <<>>
    /\ LET sig == Head(signalCh) IN
       /\ escTerm' = IF sig \in TermSignals THEN escTerm + 1 ELSE escTerm
       /\ escDiag' = IF sig = sigUSR1 THEN escDiag + 1 ELSE escDiag
    /\ signalCh' = Tail(signalCh)
    /\ forceCnt' = forceCnt - 1
    /\ escPc' = IF forceCnt - 1 > 0 THEN "recv" ELSE "force"
    /\ NoExit
    /\ UNCHANGED <<lostTerm,
                   mainPc, createErr, execCmdLine, cmdOp, cmdOpCalls,
                   logStarts, logShutdowns, startPc, startCalls, registered,
                   mainSig, stoppedFired, instExitCode, wdPc,
                   stopCalls, stopErr, dumps>>

\* main.go:128: printStackTo(os.Stderr, "PRINTING STACK ON FORCED EXIT").
EscDump(hdrOk, snapOk) ==
    /\ ~exited
    /\ escPc = "force"
    /\ dumps' = Append(dumps, printStackTo(MsgForcedExit, hdrOk, snapOk))
    /\ escPc' = "exit"
    /\ NoExit
    /\ UNCHANGED <<lostTerm,
                   mainPc, createErr, execCmdLine, cmdOp, cmdOpCalls,
                   logStarts, logShutdowns, startPc, startCalls, registered,
                   signalCh, mainSig, stoppedFired,
                   instExitCode, forceCnt, escTerm, escDiag, wdPc, stopCalls,
                   stopErr>>

\* main.go:129: os.Exit(1).
EscExit ==
    /\ ~exited
    /\ escPc = "exit"
    /\ escPc' = "done"
    /\ Exit(ExitForced, "escalation")
    /\ UNCHANGED <<lostTerm,
                   mainPc, createErr, execCmdLine, cmdOp, cmdOpCalls,
                   logStarts, logShutdowns, startPc, startCalls, registered,
                   signalCh, mainSig, stoppedFired,
                   instExitCode, forceCnt, escTerm, escDiag, wdPc, stopCalls,
                   stopErr, dumps>>

---------------------------------------------------------------------------
(* The watchdog goroutine, main.go:135-139. *)

\* main.go:136: time.Sleep(3 * time.Minute) returns.
WatchdogElapse ==
    /\ ~exited
    /\ wdPc = "sleep"
    /\ wdPc' = "fired"
    /\ NoExit
    /\ UNCHANGED <<lostTerm,
                   mainPc, createErr, execCmdLine, cmdOp, cmdOpCalls,
                   logStarts, logShutdowns, startPc, startCalls, registered,
                   signalCh, mainSig, stoppedFired,
                   instExitCode, escPc, forceCnt, escTerm, escDiag,
                   stopCalls, stopErr, dumps>>

\* main.go:137: printStackTo(os.Stderr, "... TAKING TOO LONG FOR SHUTDOWN").
WatchdogDump(hdrOk, snapOk) ==
    /\ ~exited
    /\ wdPc = "fired"
    /\ dumps' = Append(dumps, printStackTo(MsgTooLong, hdrOk, snapOk))
    /\ wdPc' = "exit"
    /\ NoExit
    /\ UNCHANGED <<lostTerm,
                   mainPc, createErr, execCmdLine, cmdOp, cmdOpCalls,
                   logStarts, logShutdowns, startPc, startCalls, registered,
                   signalCh, mainSig, stoppedFired,
                   instExitCode, escPc, forceCnt, escTerm, escDiag,
                   stopCalls, stopErr>>

\* WatchdogExit that exits with code 0.
WatchdogExitZero ==
    /\ ~exited
    /\ wdPc = "exit"
    /\ wdPc' = "done"
    /\ Exit(0, "watchdog")
    /\ UNCHANGED <<lostTerm,
                   mainPc, createErr, execCmdLine, cmdOp, cmdOpCalls,
                   logStarts, logShutdowns, startPc, startCalls, registered,
                   signalCh, mainSig, stoppedFired, instExitCode, escPc,
                   forceCnt, escTerm, escDiag, stopCalls, stopErr, dumps>>

\* WatchdogExit without the os.Exit call: the watchdog goroutine returns
\* after the dump and the process lives on.
WatchdogExitOmitted ==
    /\ ~exited
    /\ wdPc = "exit"
    /\ wdPc' = "done"
    /\ NoExit
    /\ UNCHANGED <<lostTerm,
                   mainPc, createErr, execCmdLine, cmdOp, cmdOpCalls,
                   logStarts, logShutdowns, startPc, startCalls, registered,
                   signalCh, mainSig, stoppedFired, instExitCode, escPc,
                   forceCnt, escTerm, escDiag, stopCalls, stopErr, dumps>>

\* main.go:138: os.Exit(1).
WatchdogExit ==
    /\ ~exited
    /\ wdPc = "exit"
    /\ wdPc' = "done"
    /\ Exit(ExitForced, "watchdog")
    /\ UNCHANGED <<lostTerm,
                   mainPc, createErr, execCmdLine, cmdOp, cmdOpCalls,
                   logStarts, logShutdowns, startPc, startCalls, registered,
                   signalCh, mainSig, stoppedFired,
                   instExitCode, escPc, forceCnt, escTerm, escDiag,
                   stopCalls, stopErr, dumps>>

---------------------------------------------------------------------------
(* The environment. *)

\* main.go:92-101: the OS delivers signal s to the process.  signal.Notify
\* sends it to signalCh without blocking: it is dropped when the buffer is
\* full.
SignalArrive(s) ==
    /\ ~exited
    /\ registered
    /\ signalCh' = IF Len(signalCh) < SignalChCap
                   THEN Append(signalCh, s)
                   ELSE signalCh
    /\ lostTerm' = (lostTerm \/ (/\ Len(signalCh) >= SignalChCap
                                 /\ s \in TermSignals
                                 /\ escPc = "recv"))
    /\ NoExit
    /\ UNCHANGED <<mainPc, createErr, execCmdLine, cmdOp, cmdOpCalls,
                   logStarts, logShutdowns, startPc, startCalls, registered,
                   mainSig, stoppedFired, instExitCode, escPc, forceCnt,
                   escTerm, escDiag, wdPc, stopCalls, stopErr, dumps>>

\* main.go:113: the started instance shuts itself down; the channel
\* instance.Stopped() returns is closed.  Only the select of line 103 reads
\* that channel, so the close is modelled up to the moment the main task
\* leaves the select.
InstanceStopped ==
    /\ ~exited
    /\ startCalls > 0
    /\ mainPc \in {"notify", "select"}
    /\ ~stoppedFired
    /\ stoppedFired' = TRUE
    /\ NoExit
    /\ UNCHANGED <<lostTerm,
                   mainPc, createErr, execCmdLine, cmdOp, cmdOpCalls,
                   logStarts, logShutdowns, startPc, startCalls, registered,
                   signalCh, mainSig, instExitCode, escPc,
                   forceCnt, escTerm, escDiag, wdPc, stopCalls, stopErr,
                   dumps>>

---------------------------------------------------------------------------
Next ==
    \/ \E e \in {"nil", "cmdline", "other"} :
          \E op \in {"absent", "ok", "fails"} :
             (e = "other" => op = "absent") /\ Create(e, op)
    \/ CmdLine
    \/ LogStart
    \/ GoStart
    \/ Notify
    \/ \E h \in BOOLEAN : \E s \in BOOLEAN : SelectSignal(h, s)
    \/ SelectStopped
    \/ StoppedLogShutdown
    \/ \E c \in ExitCodes : StoppedExit(c)
    \/ GoEscalation
    \/ GoWatchdog
    \/ StopCall
    \/ \E f \in BOOLEAN : StopReturn(f)
    \/ MainLogShutdown
    \/ \E c \in ExitCodes : MainExit(c)
    \/ StartCall
    \/ \E f \in BOOLEAN : StartReturn(f)
    \/ StartFailExit
    \/ EscReceive
    \/ \E h \in BOOLEAN : \E s \in BOOLEAN : EscDump(h, s)
    \/ EscExit
    \/ WatchdogElapse
    \/ \E h \in BOOLEAN : \E s \in BOOLEAN : WatchdogDump(h, s)
    \/ WatchdogExit
    \/ \E s \in NotifySignals : SignalArrive(s)
    \/ InstanceStopped

Spec == Init /\ [][Next]_vars

---------------------------------------------------------------------------
(* Notions the properties below are stated in. *)

\* Number of calls of printStackTo with the label msg.
DumpCount(msg) == Cardinality({i \in 1..Len(dumps) : dumps[i].msg = msg})

\* The positions of the main task after it left the select with a signal.
ShutdownPcs == {"go_esc", "go_wd", "stop", "in_stop", "logshutdown", "exit"}

\* The main task has left the initial wait and is shutting down.
ShuttingDown == mainPc \in ShutdownPcs \/ exitedBy = "graceful"

\* No signal has reached signalCh so far: only the main task's select takes
\* the first one, so the buffer is empty and the main task took none.
NoSignalArrived == signalCh = <<>> /\ mainSig = "none"

\* The number of diagnostic signals consumed so far, by either task.
DiagConsumed == (IF mainSig = "diag" THEN 1 ELSE 0) + escDiag

---------------------------------------------------------------------------
(* Properties. *)

\* C1: as long as every signal the supervisor has consumed is the
\* diagnostic signal (no termination-kind signal consumed yet), the main
\* task is still in its initial wait: Stop is not invoked, the escalation
\* and watchdog goroutines are not started, and there is one on-request dump
\* per diagnostic signal consumed.
C1_DiagnosticStaysWaiting ==
    (mainSig = "diag" /\ escTerm = 0) =>
        /\ mainPc = "select"
        /\ stopCalls = 0
        /\ escPc = "none"
        /\ wdPc = "none"
        /\ DumpCount(MsgOnRequest) = DiagConsumed

\* C2: shutdown begins at most once and on the first termination-kind
\* signal consumed: whenever an escalation goroutine, a watchdog or a Stop
\* call exists, the signal the main task took was of termination kind, and
\* Stop has been called at most once.
C2_ShutdownOnFirstTermination ==
    /\ (escPc # "none" \/ wdPc # "none" \/ stopCalls > 0) => mainSig = "term"
    /\ stopCalls <= 1

\* C3: the escalation goroutine reaches its forced exit exactly when it has
\* received ForceCntInit termination-kind signals: after four it has not,
\* and the forced exit has code 1 and follows a forced-exit dump.
C3_FifthTerminationForcesExit ==
    /\ escTerm < ForceCntInit => escPc \in {"none", "recv"}
    /\ escTerm = ForceCntInit => escPc \in {"force", "exit", "done"}
    /\ exitedBy = "escalation" =>
           exitCode = ExitForced /\ DumpCount(MsgForcedExit) = 1

\* C4: the watchdog is armed when shutdown begins, before Stop is called;
\* once it has elapsed its goroutine dumps the stack and then exits; the
\* exit it performs has code 1 and follows its dump; nothing of this reads
\* forceCnt.
C4_WatchdogForcesExit ==
    /\ wdPc # "none" =>
           mainSig # "none" /\ mainPc \in {"stop", "in_stop", "logshutdown", "exit", "done"}
    /\ wdPc \in {"sleep", "fired"} => DumpCount(MsgTooLong) = 0
    /\ wdPc \in {"exit", "done"} => DumpCount(MsgTooLong) = 1
    /\ wdPc = "done" <=> exitedBy = "watchdog"
    /\ exitedBy = "watchdog" => exitCode = ExitForced

\* C4 witness: the watchdog exits the process while Stop has not returned
\* and the escalation counter is part-way down.
C4_Witness ==
    /\ exitedBy = "watchdog"
    /\ exitCode = ExitForced
    /\ mainPc = "in_stop"
    /\ forceCnt = 2

\* C5: when the instance stops on its own and no signal has arrived, the
\* main task can only take the Stopped branch; on that branch Stop is never
\* invoked, no shutdown goroutine is started, logging is shut down before
\* the exit and the exit code is what ExitCode() returned.
C5_SpontaneousStop ==
    /\ NoSignalArrived => stopCalls = 0 /\ ~ShuttingDown
    /\ (mainPc \in {"stopped_logshutdown", "stopped_exit"} \/ exitedBy = "stopped") =>
           /\ stoppedFired
           /\ mainSig = "none"
           /\ stopCalls = 0
           /\ escPc = "none"
           /\ wdPc = "none"
    /\ mainPc = "stopped_exit" => logShutdowns = 1
    /\ exitedBy = "stopped" => logShutdowns = 1 /\ exitCode = instExitCode

\* C5 witness: the instance stopped with no signal arrived and the main
\* task exited with the instance's nonzero code.
C5_Witness ==
    /\ exitedBy = "stopped"
    /\ NoSignalArrived
    /\ instExitCode = 1
    /\ exitCode = 1

\* C6: once Stop has returned, with or without an error, the main task
\* shuts logging down and then exits with what ExitCode() returned; the
\* error of Stop does not enter the exit code, so no error and code 0 give 0.
C6_GracefulStopExit ==
    /\ (stopErr # "none" /\ ~exited) => mainPc \in {"logshutdown", "exit"}
    /\ mainPc = "logshutdown" => logShutdowns = 0
    /\ mainPc = "exit" => logShutdowns = 1
    /\ exitedBy = "graceful" =>
           /\ stopCalls = 1
           /\ stopErr \in {"nil", "err"}
           /\ logShutdowns = 1
           /\ exitCode = instExitCode

\* C6 witness: Stop returned an error and the process still exited 0.
C6_Witness ==
    /\ exitedBy = "graceful"
    /\ stopErr = "err"
    /\ instExitCode = 0
    /\ exitCode = 0

\* C7: a creation error other than the command line request ends the
\* process with code 2 and nothing else has happened: no logging, no Start,
\* no Stop, no signal registration, no goroutine.
C7_CreateFailure ==
    createErr = "other" =>
        /\ exited
        /\ exitCode = ExitCreateFailed
        /\ exitedBy = "create"
        /\ logStarts = 0
        /\ logShutdowns = 0
        /\ startPc = "none"
        /\ startCalls = 0
        /\ stopCalls = 0
        /\ cmdOpCalls = 0
        /\ ~registered
        /\ escPc = "none"
        /\ wdPc = "none"
        /\ dumps = <<>>

\* C7 witness: creation failed with a generic error and the process exited.
C7_Witness == createErr = "other" /\ exited /\ exitCode = ExitCreateFailed

\* C8: a command line operation requested of an instance that has none
\* ends the process with code 3; the operation is not called and Start is
\* never invoked.
C8_CmdLineOpMissing ==
    (execCmdLine /\ cmdOp = "absent") =>
        /\ mainPc \in {"cmdline", "done"}
        /\ cmdOpCalls = 0
        /\ startPc = "none"
        /\ startCalls = 0
        /\ mainPc = "done" =>
               exited /\ exitedBy = "cmdline" /\ exitCode = ExitCmdLineFailed

\* C8 witness: the request found no operation and the process exited 3.
C8_Witness ==
    execCmdLine /\ cmdOp = "absent" /\ exited /\ exitCode = ExitCmdLineFailed

\* C9: a requested command line operation that exists is called exactly
\* once; the process exits 0 when it succeeds and 3 when it fails; the
\* service is never started: no log start, no Start, no signal
\* registration or wait, no Stop.
C9_CmdLineOpRuns ==
    (execCmdLine /\ cmdOp # "absent") =>
        /\ mainPc \in {"cmdline", "done"}
        /\ mainPc = "cmdline" => cmdOpCalls = 0 /\ ~exited
        /\ mainPc = "done" =>
               /\ cmdOpCalls = 1
               /\ exited
               /\ exitedBy = "cmdline"
               /\ exitCode = IF cmdOp = "ok" THEN 0 ELSE ExitCmdLineFailed
        /\ logStarts = 0
        /\ startPc = "none"
        /\ startCalls = 0
        /\ ~registered
        /\ mainSig = "none"
        /\ stopCalls = 0

\* C9 witness: the operation ran once, failed, and the process exited 3.
C9_Witness ==
    /\ execCmdLine
    /\ cmdOp = "fails"
    /\ cmdOpCalls = 1
    /\ exited
    /\ exitCode = ExitCmdLineFailed

\* C10: in the shutdown phase only termination-kind signals decrement the
\* escalation counter, and every diagnostic signal consumed has produced an
\* on-request dump.
C10_DiagnosticDoesNotDecrement ==
    /\ forceCnt = ForceCntInit - escTerm
    /\ escPc # "none" => DumpCount(MsgOnRequest) = DiagConsumed

\* C11: log.Start is called at most once, and whenever the process has
\* exited after logging was started, log.Shutdown was called before.
C11_LogShutdownOnEveryExit ==
    /\ logStarts <= 1
    /\ (exited /\ logStarts > 0) => logShutdowns >= 1

\* C12: no termination-kind signal delivered to the process while the
\* escalation goroutine is in its loop is dropped: each one is in signalCh
\* or was received by the escalation goroutine, which decremented forceCnt
\* for it.
C12_NoSignalDroppedInShutdown == ~lostTerm

C14_StartFailureExits ==
    /\ startCalls <= 1
    /\ startPc \in {"in_start", "failed", "done"} => startCalls = 1
    /\ (startPc = "failed" /\ ~exited) => ENABLED StartFailExit
    /\ (startPc = "failed" /\ exited) => exitedBy # "start"
    /\ exitedBy = "start" =>
           startPc = "done" /\ exitCode = ExitForced /\ startCalls = 1

\* C14 witness: Start failed while the main task was inside Stop, and the
\* startup goroutine exited the process with code 1.
C14_Witness ==
    /\ exitedBy = "start"
    /\ exitCode = ExitForced
    /\ mainPc = "in_stop"

\* C16: instance.Start and instance.Stop are each called at most once;
\* Start has been called exactly when the startup goroutine has passed its
\* call, Stop exactly when the main task has passed line 142.
C16_StartAndStopOnce ==
    /\ startCalls <= 1
    /\ stopCalls <= 1
    /\ (startCalls = 1) <=> (startPc \in {"in_start", "failed", "done"})
    /\ (stopCalls = 1) <=>
           (mainPc \in {"in_stop", "logshutdown", "exit"} \/ exitedBy = "graceful")

\* C16 witness: both were called once and the process exited gracefully.
C16_Witness ==
    /\ startCalls = 1
    /\ stopCalls = 1
    /\ startPc = "done"
    /\ exitedBy = "graceful"

\* C17: a dump whose header write failed did not attempt the snapshot; a
\* failed write is logged and nothing else; no dump is made twice; after an
\* on-request dump the main task goes on, and after the forced-exit and
\* watchdog dumps, failed or not, the goroutine's next step is os.Exit(1).
C17_DumpFailureNotFatal ==
    /\ \A i \in 1..Len(dumps) :
           /\ ~dumps[i].header => dumps[i].snap = "skipped"
           /\ dumps[i].header => dumps[i].snap \in {"written", "failed"}
           /\ dumps[i].logged <=> (~dumps[i].header \/ dumps[i].snap = "failed")
    /\ \A m \in {MsgOnRequest, MsgForcedExit, MsgTooLong} : DumpCount(m) <= 1
    /\ (DumpCount(MsgOnRequest) = 1) <=> (mainSig = "diag")
    /\ (DumpCount(MsgForcedExit) = 1) <=> (escPc \in {"exit", "done"})
    /\ (DumpCount(MsgTooLong) = 1) <=> (wdPc \in {"exit", "done"})
    /\ (escPc = "exit" /\ ~exited) => ENABLED EscExit
    /\ (wdPc = "exit" /\ ~exited) => ENABLED WatchdogExit
    /\ exitedBy \in {"escalation", "watchdog"} => exitCode = ExitForced

\* C17 witness: the on-request dump failed at its header and the process
\* went on; later the watchdog's dump failed at its snapshot and the
\* watchdog still exited with code 1.
C17_Witness ==
    /\ Len(dumps) = 2
    /\ dumps[1].msg = MsgOnRequest
    /\ ~dumps[1].header
    /\ dumps[2].msg = MsgTooLong
    /\ dumps[2].snap = "failed"
    /\ exitedBy = "watchdog"
    /\ exitCode = ExitForced

\* C18: forceCnt is in 0..ForceCntInit; it is ForceCntInit less the number
\* of signals the escalation goroutine has received; it is 0 exactly when
\* that goroutine has left its loop for the forced exit, so no signal is
\* received once it is 0.
C18_ForceCntRange ==
    /\ forceCnt \in 0..ForceCntInit
    /\ forceCnt = ForceCntInit - (escTerm + escDiag)
    /\ (forceCnt = 0) <=> (escPc \in {"force", "exit", "done"})
    /\ escPc = "recv" => forceCnt > 0
    /\ escPc = "none" => forceCnt = ForceCntInit

\* C18 witness: the counter has reached 0 and the escalation goroutine has
\* exited the process.
C18_Witness ==
    /\ forceCnt = 0
    /\ escTerm + escDiag = ForceCntInit
    /\ exitedBy = "escalation"

\* C19: when instance.Stop has been called the main task has taken a signal
\* from signalCh and both the escalation goroutine and the watchdog
\* goroutine have been spawned; Stop is never in progress without a
\* watchdog.
C19_StopAfterSignalAndWatchdog ==
    /\ stopCalls > 0 => mainSig # "none" /\ escPc # "none" /\ wdPc # "none"
    /\ mainPc \in {"stop", "in_stop"} => escPc # "none" /\ wdPc # "none"

\* C19 witness: Stop is in progress after a termination-kind signal, with
\* the watchdog sleeping and the escalation goroutine listening.
C19_Witness ==
    /\ mainPc = "in_stop"
    /\ mainSig = "term"
    /\ wdPc = "sleep"
    /\ escPc = "recv"

\* C20: instance.Stop is never in progress on the main task while
\* instance.Start is in progress on the startup goroutine.
C20_StopNeverDuringStart == ~(mainPc = "in_stop" /\ startPc = "in_start")

\* C20, amended: instance.Stop is invoked only after the startup goroutine
\* has been spawned; the goroutine is not joined, so at that moment Start
\* may not have begun, may be in progress or may have returned.
C20_StopAfterStartSpawned ==
    /\ stopCalls > 0 => startPc \in {"spawned", "in_start", "failed", "done"}
    /\ mainPc \in ShutdownPcs => startPc # "none"

\* C20 witness: Stop and Start are in progress at the same time.
C20_Witness ==
    /\ mainPc = "in_stop"
    /\ stopCalls = 1
    /\ startPc = "in_start"
    /\ startCalls = 1

\* main.go:120, 135: the two go statements of the main task after the
\* select; at most one of them is enabled at a time.
MainSpawns == GoEscalation \/ GoWatchdog

\* main.go:135-139: the steps of the watchdog goroutine; at most one of them
\* is enabled at a time.
WatchdogTask ==
    \/ WatchdogElapse
    \/ \E hdrOk, snapOk \in BOOLEAN : WatchdogDump(hdrOk, snapOk)
    \/ WatchdogExit

\* The Go scheduler runs every runnable goroutine and the runtime fires an
\* armed timer, so the main task's go statements and the watchdog
\* goroutine's steps are taken once they are enabled. Nothing is assumed of
\* the environment: signals, the return of instance.Stop and the instance
\* stopping on its own may never happen.
FairSpec ==
    /\ Init
    /\ [][Next]_vars
    /\ WF_vars(MainSpawns)
    /\ WF_vars(WatchdogTask)

\* C15: once the main task has entered the shutdown phase the process
\* eventually exits, whether or not instance.Stop returns and whether or
\* not another signal arrives.
C15_ShutdownEventuallyExits == (mainPc \in ShutdownPcs) ~> exited

\* C15 witness: instance.Stop has not returned, no further signal arrived,
\* and the watchdog ended the process.
C15_Witness ==
    /\ exitedBy = "watchdog"
    /\ mainPc = "in_stop"
    /\ stopErr = "none"
    /\ signalCh = <<>>
    /\ escTerm = 0
    /\ escDiag = 0

===========================================================================
